---------------------------- MODULE Spec2Model ----------------------------
(***************************************************************************)
(* Model of the UConn syllabi crawler (uconn_syllabi_scrapy).              *)
(*                                                                         *)
(* Strings are TLA+ strings handled character by character (Len, SubSeq,   *)
(* \o), so that strip / split / upper / replace / percent-decoding are     *)
(* computed the way the Python code computes them.                         *)
(*                                                                         *)
(* Python's None is the string NoneVal where a string is expected; an      *)
(* optional set is a record [none, set].                                   *)
(***************************************************************************)
EXTENDS Integers, Sequences, FiniteSets, TLC

VARIABLES
    args,            \* raw spider arguments: [target_terms, target_depts, no_download]
    target_terms,    \* self._target_terms  : [none : BOOLEAN, set : SUBSET STRING]
    target_depts,    \* self._target_depts  : [none : BOOLEAN, set : SUBSET STRING]
    no_download,     \* self._no_download   : BOOLEAN
    pending,         \* requests scheduled and not yet answered (set)
    handled,         \* history: the last callback run [cb, request, response, issued, emitted]
    items,           \* every item yielded by the spider, with its pipeline stage
    media_requests,  \* history: download requests made by get_media_requests
    csv_rows,        \* rows written by CsvExportPipeline (self._writer)
    json_records,    \* JsonExportPipeline._records
    pc,              \* position of a helper call under test: "call" | "done" | "idle"
    arg,             \* input of the helper call under test
    ret              \* its return value

vars == <<args, target_terms, target_depts, no_download, pending, handled,
          items, media_requests, csv_rows, json_records, pc, arg, ret>>

crawlVars == <<args, target_terms, target_depts, no_download, pending, handled,
               items, media_requests, csv_rows, json_records>>

callVars == <<pc, arg, ret>>

-----------------------------------------------------------------------------
(* Python str primitives *)

NoneVal == "<None>"

Ch(s, i) == SubSeq(s, i, i)

Whitespace == {" ", "\t"}

Lowers == "abcdefghijklmnopqrstuvwxyz"
Uppers == "ABCDEFGHIJKLMNOPQRSTUVWXYZ"
Digits == "0123456789"

MinOf(S) == CHOOSE m \in S : \A x \in S : m <= x

\* max(...) of a non-empty set of integers
Max(S) == CHOOSE m \in S : \A x \in S : x <= m

\* s.find(sub, i-1) + 1 : first position >= i where sub occurs, 0 when none
FindFrom(s, sub, i) ==
    LET hits == {k \in i..(Len(s) - Len(sub) + 1) : SubSeq(s, k, k + Len(sub) - 1) = sub}
    IN IF hits = {} THEN 0 ELSE MinOf(hits)

Find(s, sub) == FindFrom(s, sub, 1)

\* position of the one-character string c in s, 0 when absent
IndexOf(c, s) == FindFrom(s, c, 1)

\* sub in s
Contains(s, sub) == \E k \in 1..(Len(s) - Len(sub) + 1) : SubSeq(s, k, k + Len(sub) - 1) = sub

StartsWith(s, sub) == Len(sub) <= Len(s) /\ SubSeq(s, 1, Len(sub)) = sub

EndsWith(s, sub) ==
    /\ Len(sub) <= Len(s)
    /\ SubSeq(s, Len(s) - Len(sub) + 1, Len(s)) = sub

From(s, i) == SubSeq(s, i, Len(s))

\* number of leading / trailing whitespace characters
LeadWs(s) == Cardinality({i \in 1..Len(s) : \A j \in 1..i : Ch(s, j) \in Whitespace})
TrailWs(s) == Cardinality({i \in 1..Len(s) : \A j \in i..Len(s) : Ch(s, j) \in Whitespace})

\* s.lstrip(), s.rstrip(), s.strip()
LStrip(s) == From(s, LeadWs(s) + 1)
RStrip(s) == SubSeq(s, 1, Len(s) - TrailWs(s))
Strip(s) == RStrip(LStrip(s))

CharsOf(s) == {Ch(s, k) : k \in 1..Len(s)}

LowerSet == CharsOf(Lowers)
UpperSet == CharsOf(Uppers)
DigitSet == CharsOf(Digits)

UpperCh(c) == IF c \in LowerSet THEN Ch(Uppers, IndexOf(c, Lowers)) ELSE c

LowerCh(c) == IF c \in UpperSet THEN Ch(Lowers, IndexOf(c, Uppers)) ELSE c

\* s.upper(), character by character (the halves are mapped and joined)
RECURSIVE Upper(_)
Upper(s) ==
    IF Len(s) <= 1 THEN UpperCh(s)
    ELSE Upper(SubSeq(s, 1, Len(s) \div 2)) \o Upper(From(s, Len(s) \div 2 + 1))

\* s.lower()
RECURSIVE Lower(_)
Lower(s) ==
    IF Len(s) <= 1 THEN LowerCh(s)
    ELSE Lower(SubSeq(s, 1, Len(s) \div 2)) \o Lower(From(s, Len(s) \div 2 + 1))

\* s.isdigit()
IsDigit(s) == s # "" /\ \A i \in 1..Len(s) : Ch(s, i) \in DigitSet

\* s.replace(old, new), old non-empty
RECURSIVE Replace(_, _, _)
Replace(s, old, new) ==
    IF ~Contains(s, old) THEN s
    ELSE SubSeq(s, 1, Find(s, old) - 1) \o new
         \o Replace(From(s, Find(s, old) + Len(old)), old, new)

\* s.split(sep): the list of pieces, sep non-empty
RECURSIVE Split(_, _)
Split(s, sep) ==
    IF ~Contains(s, sep) THEN <<s>>
    ELSE <<SubSeq(s, 1, Find(s, sep) - 1)>> \o Split(From(s, Find(s, sep) + Len(sep)), sep)

\* position of the first whitespace character of s, 0 when none
FirstWs(s) ==
    LET hits == {i \in 1..Len(s) : Ch(s, i) \in Whitespace}
    IN IF hits = {} THEN 0 ELSE MinOf(hits)

\* t.split(None, 1) for t without leading blanks
SplitStripped1(t) ==
    IF t = "" THEN <<>>
    ELSE IF FirstWs(t) = 0 THEN <<t>>
    ELSE IF LStrip(From(t, FirstWs(t) + 1)) = "" THEN <<SubSeq(t, 1, FirstWs(t) - 1)>>
    ELSE <<SubSeq(t, 1, FirstWs(t) - 1), LStrip(From(t, FirstWs(t) + 1))>>

\* s.split(None, 1): at most two pieces; the second keeps its trailing blanks
SplitWs1(s) == SplitStripped1(LStrip(s))

\* re.sub(r"[^\w]", "", s)
WordChars == LowerSet \cup UpperSet \cup DigitSet \cup {"_"}

RECURSIVE StripNonWord(_)
StripNonWord(s) ==
    IF s = "" THEN ""
    ELSE IF Len(s) = 1 THEN (IF s \in WordChars THEN s ELSE "")
    ELSE StripNonWord(SubSeq(s, 1, Len(s) \div 2))
         \o StripNonWord(From(s, Len(s) \div 2 + 1))

Range(f) == {f[i] : i \in DOMAIN f}

-----------------------------------------------------------------------------
(* urllib.parse: urljoin, urlparse, parse_qs, unquote (the cases the crawl meets) *)

\* s.rfind(c) + 1
LastIndexOf(c, s) == Max({0} \cup {i \in 1..Len(s) : Ch(s, i) = c})

\* the part of s before the first occurrence of c (all of s when absent)
Before(s, c) == IF Contains(s, c) THEN SubSeq(s, 1, Find(s, c) - 1) ELSE s

\* the part of s after the first occurrence of c ("" when absent)
After(s, c) == IF Contains(s, c) THEN From(s, Find(s, c) + Len(c)) ELSE ""

\* first position >= i of s holding one of chars, 0 when none
FirstOf(s, chars, i) ==
    LET hits == {k \in i..Len(s) : Ch(s, k) \in chars}
    IN IF hits = {} THEN 0 ELSE MinOf(hits)

\* "scheme://netloc" of an absolute URL
UrlOrigin(url) ==
    LET k == Find(url, "://")
        stop == FirstOf(url, {"/", "?", "#"}, k + 3)
    IN IF stop = 0 THEN url ELSE SubSeq(url, 1, stop - 1)

\* urlparse(url).path (";params" of the last segment are not part of it)
UrlPath(url) ==
    LET noFrag == Before(url, "#")
        noQuery == Before(noFrag, "?")
        path == From(noQuery, Len(UrlOrigin(noQuery)) + 1)
        slash == LastIndexOf("/", path)
        semi == FindFrom(path, ";", slash + 1)
    IN IF semi = 0 THEN path ELSE SubSeq(path, 1, semi - 1)

\* urlparse(url).query
UrlQuery(url) == After(Before(url, "#"), "?")

\* urljoin(base, ref) for an absolute http(s) base; dot segments are not
\* normalised (no modelled link has any)
urljoin(base, ref) ==
    IF ref = "" THEN base
    ELSE IF StartsWith(ref, "http://") \/ StartsWith(ref, "https://") THEN ref
    ELSE IF StartsWith(ref, "/") THEN UrlOrigin(base) \o ref
    ELSE IF StartsWith(ref, "?") THEN Before(Before(base, "#"), "?") \o ref
    ELSE IF StartsWith(ref, "#") THEN Before(base, "#") \o ref
    ELSE LET noQuery == Before(Before(base, "#"), "?")
             org == UrlOrigin(noQuery)
             path == From(noQuery, Len(org) + 1)
             dir == SubSeq(path, 1, LastIndexOf("/", path))
         IN org \o (IF dir = "" THEN "/" ELSE dir) \o ref

\* the percent escapes unquote() decodes in this model: <<two hex digits, character>>
PctTable ==
    << <<"7C", "|">>, <<"7c", "|">>, <<"25", "%">>, <<"20", " ">>,
       <<"26", "&">>, <<"3D", "=">>, <<"3d", "=">>, <<"2B", "+">>,
       <<"2b", "+">>, <<"23", "#">>, <<"3F", "?">>, <<"3f", "?">> >>

PctLookup(hex) ==
    LET hits == {k \in 1..Len(PctTable) : PctTable[k][1] = hex}
    IN IF hits = {} THEN NoneVal ELSE PctTable[CHOOSE k \in hits : TRUE][2]

\* the character a "%XX" at position k of s decodes to, NoneVal when none
PctAt(s, k) ==
    IF k + 2 <= Len(s) THEN PctLookup(SubSeq(s, k + 1, k + 2)) ELSE NoneVal

\* urllib.parse.unquote: every %XX is decoded once, left to right
RECURSIVE unquote(_)
unquote(s) ==
    IF ~Contains(s, "%") THEN s
    ELSE IF PctAt(s, Find(s, "%")) # NoneVal
         THEN SubSeq(s, 1, Find(s, "%") - 1) \o PctAt(s, Find(s, "%"))
              \o unquote(From(s, Find(s, "%") + 3))
    ELSE SubSeq(s, 1, Find(s, "%")) \o unquote(From(s, Find(s, "%") + 1))

\* parse_qs(query): the list of (name, value) pairs it keeps, in order
\* (keep_blank_values=False: a pair without "=" or with an empty value is dropped)
RECURSIVE parse_qsl(_)
parse_qsl(pairs) ==
    IF pairs = <<>> THEN <<>>
    ELSE LET nv == Head(pairs)
             name == Before(nv, "=")
             value == After(nv, "=")
         IN (IF nv = "" \/ ~Contains(nv, "=") \/ value = "" THEN <<>>
             ELSE << <<unquote(Replace(name, "+", " ")),
                       unquote(Replace(value, "+", " "))>> >>)
            \o parse_qsl(Tail(pairs))

\* parse_qs(query).get(key, [""])[0]
parse_qs_get(query, key) ==
    LET kept == SelectSeq(parse_qsl(Split(query, "&")), LAMBDA p : p[1] = key)
    IN IF kept = <<>> THEN "" ELSE kept[1][2]

\* hashlib.sha1(url.encode()).hexdigest()[:12], as an uninterpreted function of
\* the hashed text: a tag and the word characters of the text (a hex digest
\* holds no path separator, dot or blank)
sha1_hex12(text) == "sha1x" \o StripNonWord(text)

-----------------------------------------------------------------------------
(* spiders/uconn_syllabi_spider.py: module constants and pure helpers *)

BASE_URL == "https://syllabus.uconn.edu/public/"
TERM_LIST_URL == urljoin(BASE_URL, "search_term.php")

Truthy(x) == x # NoneVal /\ x # ""

(* A term-list response is [url, options]: its <option> elements in document
   order, each [select_name, select_id, in_form, value, text] where
   select_name / select_id are the attributes of the enclosing <select>,
   in_form tells whether that <select> is inside a <form>, value is the
   option's value attribute (NoneVal when it has none) and text its first
   text node ("" when it has none). *)
selectors_to_try == <<"select[name=\"term\"] option", "select#term option", "form select option">>

option_matches(sel, opt) ==
    IF sel = "select[name=\"term\"] option" THEN opt.select_name = "term"
    ELSE IF sel = "select#term option" THEN opt.select_id = "term"
    ELSE opt.in_form

\* response.css(sel) for the three option selectors
css_options(response, sel) ==
    SelectSeq(response.options, LAMBDA opt : option_matches(sel, opt))

\* opt.attrib.get("value", "").strip()
option_value(opt) == Strip(IF opt.value = NoneVal THEN "" ELSE opt.value)

\* opt.css("::text").get("").strip()
option_label(opt) == Strip(opt.text)

term_option_kept_nonblank(value) == value # ""

\* line 49: if value.isdigit()
term_option_kept(value) == IsDigit(value)

\* lines 45-50: the (value, label) pairs kept from one selector's options
RECURSIVE option_results(_)
option_results(options) ==
    IF options = <<>> THEN <<>>
    ELSE (IF term_option_kept(option_value(Head(options)))
          THEN << <<option_value(Head(options)), option_label(Head(options))>> >>
          ELSE <<>>)
         \o option_results(Tail(options))

\* lines 42-53: the loop over the selectors
RECURSIVE try_selectors(_, _)
try_selectors(response, sels) ==
    IF sels = <<>> THEN <<>>
    ELSE LET options == css_options(response, Head(sels))
             results == option_results(options)
         IN IF options # <<>> /\ results # <<>> THEN results
            ELSE try_selectors(response, Tail(sels))

_extract_term_options(response) == try_selectors(response, selectors_to_try)

_split_class_keep_case(class_name) ==
    LET parts == SplitWs1(Strip(class_name)) IN
    IF Len(parts) = 2 THEN <<parts[1], parts[2]>>
    ELSE IF Len(parts) = 1 THEN <<parts[1], "">>
    ELSE <<"", "">>

_split_class(class_name) ==
    LET parts == SplitWs1(Strip(class_name)) IN
    IF Len(parts) = 2 THEN <<Upper(parts[1]), parts[2]>>
    ELSE IF Len(parts) = 1 THEN <<Upper(parts[1]), "">>
    ELSE <<"", "">>

(* A results response is [url, th, tr, nav]: th the raw first text node of
   every <th> of the table, tr the table's rows, each row the sequence of its
   <td> cells (a header or separator row has none), each cell [text, a] with
   text its first text node ("" when none) and a its <a> elements, and nav the
   <a> elements after the table.  An <a> is [rel, text, href], an absent
   attribute being NoneVal. *)

\* sel.css("...::attr(href)").get(default): href of the first selected <a> that has one
first_href(anchors, default) ==
    LET withHref == SelectSeq(anchors, LAMBDA a : a.href # NoneVal)
    IN IF withHref = <<>> THEN default ELSE withHref[1].href

RECURSIVE row_anchors(_)
row_anchors(cells) ==
    IF cells = <<>> THEN <<>> ELSE Head(cells).a \o row_anchors(Tail(cells))

RECURSIVE table_anchors(_)
table_anchors(trs) ==
    IF trs = <<>> THEN <<>> ELSE row_anchors(Head(trs)) \o table_anchors(Tail(trs))

\* every <a> of the document, in document order
all_anchors(response) == table_anchors(response.tr) \o response.nav

_find_next_page(response) ==
    LET anchors == all_anchors(response)
        byRel == first_href(SelectSeq(anchors, LAMBDA a : a.rel = "next"), NoneVal)
        byNext == first_href(SelectSeq(anchors, LAMBDA a : Contains(a.text, "Next")), NoneVal)
        byRaquo == first_href(SelectSeq(anchors, LAMBDA a : Contains(a.text, "»")), NoneVal)
        next_link == IF Truthy(byRel) THEN byRel
                     ELSE IF Truthy(byNext) THEN byNext
                     ELSE byRaquo
    IN IF Truthy(next_link) THEN urljoin(response.url, next_link) ELSE NoneVal

\* line 93: the header texts, stripped and lower-cased
RECURSIVE header_texts(_)
header_texts(ths) ==
    IF ths = <<>> THEN <<>>
    ELSE <<Lower(Strip(Head(ths)))>> \o header_texts(Tail(ths))

table_headers(response) == header_texts(response.th)

\* 0-based index of the first header that contains name, -1 when none does
first_header_with(headers, name) ==
    LET hits == {i \in 1..Len(headers) : Contains(headers[i], name)}
    IN IF hits = {} THEN -1 ELSE (CHOOSE i \in hits : \A j \in hits : i <= j) - 1

col_index_header_order(headers, names, default) ==
    LET hits == {i \in 1..Len(headers) :
                   \E k \in 1..Len(names) : Contains(headers[i], names[k])}
    IN IF hits = {} THEN default ELSE (CHOOSE i \in hits : \A j \in hits : i <= j) - 1

\* lines 95-100
RECURSIVE col_index(_, _, _)
col_index(headers, names, default) ==
    IF names = <<>> THEN default
    ELSE IF first_header_with(headers, Head(names)) >= 0
         THEN first_header_with(headers, Head(names))
    ELSE col_index(headers, Tail(names), default)

\* lines 102-105: the four resolved columns
resolve_columns(headers) ==
    [class_col      |-> col_index(headers, <<"class">>, 1),
     section_col    |-> col_index(headers, <<"section">>, 2),
     instructor_col |-> col_index(headers, <<"instructor">>, 3),
     syllabi_col    |-> col_index(headers, <<"syllabi", "syllabus">>, 4)]

max_col(cols) ==
    Max({cols.class_col, cols.section_col, cols.instructor_col, cols.syllabi_col})

row_too_short_lt(cells, cols) == Len(cells) < max_col(cols)

\* line 112
row_too_short(cells, cols) == Len(cells) <= max_col(cols)

\* cells[i] raises IndexError when i is past the end
in_range(cells, i) == i + 1 \in 1..Len(cells)

\* cells[i].css("::text").get("").strip()
cell_text(cells, i) == Strip(cells[i + 1].text)

\* lines 110-130: the loop over the rows; acc is [rows, raised]
RECURSIVE table_rows(_, _, _)
table_rows(trs, cols, acc) ==
    IF trs = <<>> THEN acc
    ELSE LET cells == Head(trs) IN
         IF row_too_short(cells, cols) THEN table_rows(Tail(trs), cols, acc)
         ELSE IF \E c \in {cols.class_col, cols.section_col,
                           cols.instructor_col, cols.syllabi_col} : ~in_range(cells, c)
              THEN [acc EXCEPT !.raised = TRUE]
         ELSE LET class_name == cell_text(cells, cols.class_col)
                  section == cell_text(cells, cols.section_col)
                  instructor == cell_text(cells, cols.instructor_col)
                  href == Strip(first_href(cells[cols.syllabi_col + 1].a, ""))
              IN IF class_name = "" THEN table_rows(Tail(trs), cols, acc)
                 ELSE table_rows(Tail(trs), cols,
                        [acc EXCEPT !.rows = @ \o <<[class_name |-> class_name,
                                                     section    |-> section,
                                                     instructor |-> instructor,
                                                     href       |-> href]>>])

\* list(_parse_results_table(response, term_code, term_name)):
\* [rows |-> the dicts yielded, raised |-> whether the generator raised]
_parse_results_table(response) ==
    table_rows(response.tr, resolve_columns(table_headers(response)),
               [rows |-> <<>>, raised |-> FALSE])

-----------------------------------------------------------------------------
(* pipelines.py and settings.py *)

OUTPUT_FIELDS ==
    <<"term_name", "class_name", "section", "instructor", "syllabus_web_url",
      "syllabus_local_filepath", "syllabus_local_filename">>

FILES_STORE == "syllabi_downloads"

\* UConnFilesPipeline.get_media_requests: the URLs requested for an item
get_media_requests(item) == item.file_urls

file_id_hash_of_param(url) ==
    LET file_param == parse_qs_get(UrlQuery(url), "file")
        file_param_decoded == Replace(file_param, "%7C", "|")
    IN IF Contains(file_param_decoded, "|")
       THEN Strip(Split(file_param_decoded, "|")[1])
       ELSE sha1_hex12(file_param)

\* lines 46-56 of file_path
file_id(url) ==
    LET file_param == parse_qs_get(UrlQuery(url), "file")
        file_param_decoded == Replace(file_param, "%7C", "|")
    IN IF Contains(file_param_decoded, "|")
       THEN Strip(Split(file_param_decoded, "|")[1])
       ELSE sha1_hex12(url)

\* lines 59-65 of file_path
file_ext(url) ==
    LET path == Lower(UrlPath(url)) IN
    IF EndsWith(path, ".docx") THEN "docx"
    ELSE IF EndsWith(path, ".doc") THEN "doc"
    ELSE "pdf"

\* UConnFilesPipeline.file_path(request, item=item), url being request.url
file_path(url, item) ==
    LET term_code == Strip(IF Truthy(item.term_code) THEN item.term_code ELSE "0000")
        class_name == Strip(IF Truthy(item.class_name) THEN item.class_name ELSE "")
        parts == SplitWs1(class_name)
        dept == IF parts # <<>> THEN StripNonWord(parts[1]) ELSE "UNKNOWN"
        number == IF Len(parts) > 1 THEN StripNonWord(parts[2]) ELSE "0"
    IN term_code \o "_" \o dept \o "_" \o number \o "_" \o file_id(url)
       \o "." \o file_ext(url)

\* os.path.basename
basename(path) == From(path, LastIndexOf("/", path) + 1)

\* os.path.join(a, b)
path_join(a, b) ==
    IF StartsWith(b, "/") THEN b
    ELSE IF a = "" \/ EndsWith(a, "/") THEN a \o b
    ELSE a \o "/" \o b

\* A download result is <<ok, r>>: r is [path |-> ...] when ok, a failure otherwise.
downloaded_of(results) ==
    SelectSeq(results, LAMBDA r : r[1])

item_completed_path_only(results, item) ==
    LET downloaded == downloaded_of(results) IN
    IF downloaded # <<>>
    THEN [item EXCEPT !.syllabus_local_filepath =
                          path_join(FILES_STORE, basename(downloaded[1][2].path))]
    ELSE item

item_completed_marks_failed(results, item) ==
    LET downloaded == downloaded_of(results) IN
    IF downloaded # <<>>
    THEN LET filename == basename(downloaded[1][2].path) IN
         [item EXCEPT !.syllabus_local_filepath = path_join(FILES_STORE, filename),
                      !.syllabus_local_filename = filename]
    ELSE IF results # <<>>
         THEN [item EXCEPT !.syllabus_local_filename = "FAILED"]
         ELSE item

\* UConnFilesPipeline.item_completed: the item it returns
item_completed(results, item) ==
    LET downloaded == downloaded_of(results) IN
    IF downloaded # <<>>
    THEN LET rel_path == downloaded[1][2].path
             filename == basename(rel_path)
             local_filepath == path_join(FILES_STORE, filename)
         IN [item EXCEPT !.syllabus_local_filepath = local_filepath,
                         !.syllabus_local_filename = filename]
    ELSE [item EXCEPT
            !.syllabus_local_filepath = IF ~Truthy(@) THEN "" ELSE @,
            !.syllabus_local_filename = IF ~Truthy(@) THEN "" ELSE @]

\* {f: adapter.get(f, "") for f in OUTPUT_FIELDS}
export_row(item) == [f \in Range(OUTPUT_FIELDS) |-> item[f]]

\* CsvExportPipeline.process_item: the rows written so far, then this one
\* (src tags the row with the position of its item in items: history only)
csv_process_item(rows, src, item) == rows \o <<[src |-> src, row |-> export_row(item)]>>

\* JsonExportPipeline.process_item
json_process_item(records, src, item) ==
    records \o <<[src |-> src, row |-> export_row(item)]>>

-----------------------------------------------------------------------------
(* UConnSyllabiSpider.__init__ *)

\* set(t.strip() for t in raw.split(",") if t.strip()) if raw else None
parse_codes(raw) ==
    IF ~Truthy(raw) THEN [none |-> TRUE, set |-> {}]
    ELSE [none |-> FALSE,
          set |-> {Strip(t) : t \in {u \in Range(Split(raw, ",")) : Strip(u) # ""}}]

\* line 148
init_target_terms(raw) == parse_codes(raw)

\* line 149
init_target_depts(raw) ==
    LET c == parse_codes(raw) IN [c EXCEPT !.set = {Upper(d) : d \in @}]

\* line 150
init_no_download(raw) ==
    IF Truthy(raw) THEN Strip(raw) \in {"1", "true", "yes"} ELSE FALSE

\* truth value of an Optional[set]: None and the empty set are both false
SetTruthy(s) == ~s.none /\ s.set # {}

-----------------------------------------------------------------------------
(* The site: the documents a request may be answered with *)

\* pagination links followed in one chain, at most
MaxFollow == 1
\* items yielded in one crawl, at most
MaxItems == 2

Opt(sname, sid, form, value, text) ==
    [select_name |-> sname, select_id |-> sid, in_form |-> form,
     value |-> value, text |-> text]

A(rel, text, href) == [rel |-> rel, text |-> text, href |-> href]

Td(text, anchors) == [text |-> text, a |-> anchors]

TermListDocs ==
    { \* the site as it is: a placeholder and two terms
      << Opt("term", "term", TRUE, "", "-- Select --"),
         Opt("term", "term", TRUE, "1258", " Fall 2025 "),
         Opt("term", "term", TRUE, " 1255 ", "Spring 2025") >>,
      \* no <option> at all
      << >>,
      \* the term dropdown holds a placeholder only; another form has a dropdown
      << Opt("term", NoneVal, FALSE, "select", "Select"),
         Opt("year", NoneVal, TRUE, "1248", "Fall 2024") >> }

StdHeaders == <<"Term", "Class", "Section", "Instructor", "Syllabi">>

RowCse ==
    << Td("Fall 2025", <<>>), Td("CSE 3666", <<>>), Td("001", <<>>),
       Td("Zhijie Shi", <<>>),
       Td("", <<A(NoneVal, "View", "download.php?file=10|abc")>>) >>

RowMath ==
    << Td("Fall 2025", <<>>), Td(" math 1131Q ", <<>>), Td("002", <<>>),
       Td("", <<>>), Td("", <<>>) >>

RowEmpty == << Td("", <<>>), Td("", <<>>), Td("", <<>>), Td("", <<>>), Td("", <<>>) >>

RowSeparator == << >>

ResultDocs ==
    { [th |-> StdHeaders, tr |-> <<RowSeparator, RowCse, RowEmpty>>, nav |-> <<>>],
      [th |-> StdHeaders, tr |-> <<RowMath, RowCse>>,
       nav |-> <<A("next", "2", "?term=1258&page=2")>>],
      [th |-> <<>>, tr |-> <<RowMath>>,
       nav |-> <<A(NoneVal, "Next »", "search_term.php?page=2")>>],
      [th |-> StdHeaders, tr |-> <<RowCse>>, nav |-> <<A(NoneVal, "Next", NoneVal)>>] }

TermListResponse(url, doc) ==
    [url |-> url, options |-> doc, th |-> <<>>, tr |-> <<>>, nav |-> <<>>]

ResultsResponse(url, doc) ==
    [url |-> url, options |-> <<>>, th |-> doc.th, tr |-> doc.tr, nav |-> doc.nav]

NoResponse == TermListResponse("", <<>>)

-----------------------------------------------------------------------------
(* UConnSyllabiSpider: the callbacks *)

\* scrapy.Request(url, callback, cb_kwargs); follows counts the pagination
\* links behind the request and chain is the cb_kwargs of the request
\* parse_term_list issued at the head of the chain (both history only)
Request(url, callback, term_code, term_name, follows, chain) ==
    [url |-> url, callback |-> callback,
     cb_kwargs |-> [term_code |-> term_code, term_name |-> term_name],
     follows |-> follows, chain |-> chain]

StartRequest ==
    Request(TERM_LIST_URL, "parse_term_list", "", "", 0,
            [term_code |-> "", term_name |-> ""])

term_wanted_all(term_code) == TRUE

\* line 175, negated: the term is not skipped
term_wanted(term_code) ==
    ~(SetTruthy(target_terms) /\ term_code \notin target_terms.set)

\* lines 174-183: the requests yielded for the options
RECURSIVE term_requests(_)
term_requests(options) ==
    IF options = <<>> THEN <<>>
    ELSE LET term_code == Head(options)[1]
             term_label == Head(options)[2]
         IN (IF term_wanted(term_code)
             THEN <<Request(TERM_LIST_URL \o "?term=" \o term_code,
                            "parse_term_results", term_code, term_label, 0,
                            [term_code |-> term_code, term_name |-> term_label])>>
             ELSE <<>>)
            \o term_requests(Tail(options))

\* line 199, negated: the row is not dropped
dept_kept(dept) ==
    ~(SetTruthy(target_depts) /\ dept \notin target_depts.set)

\* lines 205-210
abs_url_of(response, href) ==
    IF href # "" THEN Replace(urljoin(response.url, href), "|", "%7C") ELSE ""

item_file_urls_always(abs_url) == IF abs_url # "" THEN <<abs_url>> ELSE <<>>

\* line 222
item_file_urls(abs_url) ==
    IF abs_url # "" /\ ~no_download THEN <<abs_url>> ELSE <<>>

\* lines 212-224
UConnSyllabusItem(response, row, term_code, term_name) ==
    LET abs_url == abs_url_of(response, row.href) IN
    [term_name |-> term_name,
     term_code |-> term_code,
     class_name |-> row.class_name,
     section |-> row.section,
     instructor |-> row.instructor,
     syllabus_web_url |-> abs_url,
     syllabus_local_filepath |-> "",
     syllabus_local_filename |-> "",
     file_urls |-> item_file_urls(abs_url),
     files |-> <<>>]

\* lines 194-226: the items yielded for the rows
RECURSIVE row_items(_, _, _, _)
row_items(rows, response, term_code, term_name) ==
    IF rows = <<>> THEN <<>>
    ELSE (IF dept_kept(_split_class(Head(rows).class_name)[1])
          THEN <<UConnSyllabusItem(response, Head(rows), term_code, term_name)>>
          ELSE <<>>)
         \o row_items(Tail(rows), response, term_code, term_name)

follow_request_page_term(request, next_page) ==
    IF Truthy(next_page)
    THEN <<Request(next_page, "parse_term_results",
                   After(UrlQuery(next_page), "term="), request.cb_kwargs.term_name,
                   request.follows + 1, request.chain)>>
    ELSE <<>>

\* lines 231-238: the request yielded for the next page
follow_request(request, next_page) ==
    IF Truthy(next_page)
    THEN <<Request(next_page, "parse_term_results",
                   request.cb_kwargs.term_code, request.cb_kwargs.term_name,
                   request.follows + 1, request.chain)>>
    ELSE <<>>

\* an item in the pipelines: stage is "new" (yielded), "downloading"
\* (get_media_requests done) or "done" (item_completed and both exporters done);
\* yielded, results and chain are history
Tracked(item, request) ==
    [item |-> item, stage |-> "new", yielded |-> item, results |-> <<>>,
     chain |-> request.chain]

RECURSIVE TrackAll(_, _)
TrackAll(its, request) ==
    IF its = <<>> THEN <<>>
    ELSE <<Tracked(Head(its), request)>> \o TrackAll(Tail(its), request)

Handled(cb, request, response, issued, emitted) ==
    [cb |-> cb, request |-> request, response |-> response,
     issued |-> issued, emitted |-> emitted]

\* the -a arguments of a run: the defaults, each argument set alone (to a
\* value that names something and to one that names nothing or is not
\* recognised), and a run with all three set
ArgDefaults == [target_terms |-> NoneVal, target_depts |-> NoneVal, no_download |-> NoneVal]

ArgCombos ==
    {ArgDefaults}
    \cup {[ArgDefaults EXCEPT !.target_terms = t] : t \in {" 1255 ,9999", ","}}
    \cup {[ArgDefaults EXCEPT !.target_depts = d] : d \in {"math", " , "}}
    \cup {[ArgDefaults EXCEPT !.no_download = n] : n \in {" yes ", "True"}}
    \cup {[target_terms |-> " 1255 ,9999", target_depts |-> "math", no_download |-> " yes "]}

\* the state after __init__(target_terms, target_depts, no_download), nothing crawled
Constructed(a) ==
    /\ args = a
    /\ target_terms = init_target_terms(a.target_terms)
    /\ target_depts = init_target_depts(a.target_depts)
    /\ no_download = init_no_download(a.no_download)
    /\ pending = {}
    /\ handled = Handled("__init__", StartRequest, NoResponse, <<>>, <<>>)
    /\ items = <<>>
    /\ media_requests = <<>>
    /\ csv_rows = <<>>
    /\ json_records = <<>>

Init ==
    /\ \E a \in ArgCombos : Constructed(a)
    /\ pc = "idle" /\ arg = <<>> /\ ret = <<>>

confVars == <<args, target_terms, target_depts, no_download>>
pipeVars == <<items, media_requests, csv_rows, json_records>>

start_requests ==
    /\ handled.cb = "__init__"
    /\ pending' = {StartRequest}
    /\ handled' = Handled("start_requests", StartRequest, NoResponse,
                          <<StartRequest>>, <<>>)
    /\ UNCHANGED <<confVars, pipeVars, callVars>>

\* In the callbacks below a value computed once by the code and used several
\* times is bound once, as the only element of a singleton set.

parse_term_list ==
    \E request \in pending, doc \in TermListDocs :
        /\ request.callback = "parse_term_list"
        /\ \E response \in {TermListResponse(request.url, doc)} :
           \E options \in {_extract_term_options(response)} :
           \E issued \in {term_requests(options)} :
              /\ pending' = (pending \ {request}) \cup Range(issued)
              /\ handled' = Handled("parse_term_list", request, response, issued, <<>>)
        /\ UNCHANGED <<confVars, pipeVars, callVars>>

parse_term_results ==
    \E request \in pending, doc \in ResultDocs :
        /\ request.callback = "parse_term_results"
        /\ \E response \in {ResultsResponse(request.url, doc)} :
           \E parsed \in {_parse_results_table(response)} :
           \E emitted \in {IF parsed.raised THEN <<>>
                           ELSE row_items(parsed.rows, response,
                                          request.cb_kwargs.term_code,
                                          request.cb_kwargs.term_name)} :
           \E next_page \in {_find_next_page(response)} :
           \E issued \in {IF parsed.raised THEN <<>>
                          ELSE follow_request(request, next_page)} :
              /\ Len(items) + Len(emitted) <= MaxItems
              /\ request.follows < MaxFollow \/ next_page = NoneVal
              /\ pending' = (pending \ {request}) \cup Range(issued)
              /\ items' = items \o TrackAll(emitted, request)
              /\ handled' = Handled("parse_term_results", request, response,
                                    issued, emitted)
        /\ UNCHANGED <<confVars, media_requests, csv_rows, json_records, callVars>>

\* UConnFilesPipeline.process_item up to the downloads being requested
files_process_item ==
    \E i \in 1..Len(items) :
        /\ items[i].stage = "new"
        /\ items' = [items EXCEPT ![i].stage = "downloading"]
        /\ media_requests' = media_requests \o
               [k \in 1..Len(get_media_requests(items[i].item)) |->
                   [src |-> i, url |-> get_media_requests(items[i].item)[k]]]
        /\ UNCHANGED <<confVars, pending, handled, csv_rows, json_records, callVars>>

\* FilesPipeline: the result of the download of url for item
download_result(ok, url, item) ==
    IF ok THEN <<TRUE, [path |-> file_path(url, item)]>>
    ELSE <<FALSE, [path |-> NoneVal]>>

\* the downloads of an item end, each with success or failure; item_completed
\* runs and the item passes through the exporters in ITEM_PIPELINES order
downloads_done ==
    \E i \in 1..Len(items) :
        /\ items[i].stage = "downloading"
        /\ \E urls \in {get_media_requests(items[i].item)} :
           \E oks \in [1..Len(urls) -> BOOLEAN] :
           \E results \in {[k \in 1..Len(urls) |->
                               download_result(oks[k], urls[k], items[i].item)]} :
           \E item \in {item_completed(results, items[i].item)} :
              /\ items' = [items EXCEPT ![i].stage = "done", ![i].item = item,
                                        ![i].results = results]
              /\ csv_rows' = csv_process_item(csv_rows, i, item)
              /\ json_records' = json_process_item(json_records, i, item)
        /\ UNCHANGED <<confVars, pending, handled, media_requests, callVars>>

Next ==
    \/ start_requests
    \/ parse_term_list
    \/ parse_term_results
    \/ files_process_item
    \/ downloads_done

Spec == Init /\ [][Next]_vars

-----------------------------------------------------------------------------
(* The helpers on their own: Init draws the input, one step applies the helper *)

RECURSIVE SeqsUpTo(_, _)
SeqsUpTo(S, n) ==
    IF n = 0 THEN {<<>>}
    ELSE SeqsUpTo(S, n - 1)
         \cup {Append(q, x) : q \in {r \in SeqsUpTo(S, n - 1) : Len(r) = n - 1}, x \in S}

RECURSIVE Concat(_)
Concat(ss) == IF ss = <<>> THEN "" ELSE Head(ss) \o Concat(Tail(ss))

(* Column Resolver: the <th> texts of a table *)
MaxHeaders == 3

HeaderTexts ==
    {"Term", " Class ", "Section", "Instructor", "Syllabi", "Course Syllabus", "Class Section"}

InitCol ==
    /\ Constructed(ArgDefaults)
    /\ pc = "call"
    /\ arg \in SeqsUpTo(HeaderTexts, MaxHeaders)
    /\ ret = <<>>

call_resolve_columns ==
    /\ pc = "call"
    /\ ret' = resolve_columns(header_texts(arg))
    /\ pc' = "done"
    /\ UNCHANGED <<arg, crawlVars>>

SpecCol == InitCol /\ [][call_resolve_columns]_vars

(* Term Discovery: the <option> elements of a term-list page *)
MaxOptions == 2

OptionContexts ==
    { <<"term", NoneVal, FALSE>>, <<NoneVal, "term", FALSE>>,
      <<"year", NoneVal, TRUE>>, <<"term", "term", TRUE>> }

OptionValues == {"1258", " 1255 ", "", "select", NoneVal}

OptionKinds ==
    {Opt(c[1], c[2], c[3], v, IF v = "1258" THEN " Fall 2025 " ELSE "Other") :
        c \in OptionContexts, v \in OptionValues}

InitTerm ==
    /\ Constructed(ArgDefaults)
    /\ pc = "call"
    /\ arg \in SeqsUpTo(OptionKinds, MaxOptions)
    /\ ret = <<>>

call_extract_term_options ==
    /\ pc = "call"
    /\ ret' = _extract_term_options(TermListResponse(TERM_LIST_URL, arg))
    /\ pc' = "done"
    /\ UNCHANGED <<arg, crawlVars>>

SpecTerm == InitTerm /\ [][call_extract_term_options]_vars

(* Row Parser: a results table *)
MaxRows == 2

HeaderChoices ==
    { <<>>, StdHeaders, <<"Class", "Section", "Instructor", "Syllabus">>,
      <<"Term", "Section", "Instructor", "Syllabi", "Campus", "Class">> }

RowBlankClass ==
    << Td("Fall 2025", <<>>), Td(" \t", <<>>), Td("003", <<>>), Td("A B", <<>>),
       Td("", <<A(NoneVal, "View", NoneVal), A(NoneVal, "PDF", " dl.php?file=7 ")>>) >>

RowFourCells ==
    << Td("ECE 2001", <<>>), Td("010", <<>>), Td("C D", <<>>),
       Td("", <<A(NoneVal, "View", "/files/a.docx")>>) >>

RowSixCells == RowCse \o << Td("STAT 1000Q", <<>>) >>

RowKinds == {RowCse, RowMath, RowEmpty, RowSeparator, RowBlankClass, RowFourCells, RowSixCells}

InitRow ==
    /\ Constructed(ArgDefaults)
    /\ pc = "call"
    /\ arg \in {[th |-> h, tr |-> t, nav |-> <<>>] :
                   h \in HeaderChoices, t \in SeqsUpTo(RowKinds, MaxRows)}
    /\ ret = <<>>

call_parse_results_table ==
    /\ pc = "call"
    /\ ret' = _parse_results_table(ResultsResponse(TERM_LIST_URL \o "?term=1258", arg))
    /\ pc' = "done"
    /\ UNCHANGED <<arg, crawlVars>>

SpecRow == InitRow /\ [][call_parse_results_table]_vars

(* Filename Deriver: a download URL and the item it belongs to.  The URL is
   built from a path, a query shape and the pieces of the value V put in it;
   arg keeps the shape and the pieces next to the URL. *)
MaxPieces == 3

ValuePieces == {"123", "abc", "|", "%7C", "%257C", "+"}

QueryShapes == {"none", "file=V", "id=7&file=V", "file=&file=V", "id=V", "file=V&file=9|z"}

QueryOf(shape, v) ==
    IF shape = "none" THEN ""
    ELSE IF shape = "file=V" THEN "?file=" \o v
    ELSE IF shape = "id=7&file=V" THEN "?id=7&file=" \o v
    ELSE IF shape = "file=&file=V" THEN "?file=&file=" \o v
    ELSE IF shape = "id=V" THEN "?id=" \o v
    ELSE "?file=" \o v \o "&file=9|z"

DownloadPaths == {"download.php", "files/Syllabus.DOCX"}

FileItems ==
    { [term_code |-> "1258", class_name |-> "CSE 3666"],
      [term_code |-> "", class_name |-> ""] }

InitFile ==
    /\ Constructed(ArgDefaults)
    /\ pc = "call"
    /\ arg \in {[url |-> BASE_URL \o path \o QueryOf(shape, Concat(pieces)),
                 shape |-> shape, pieces |-> pieces, item |-> item] :
                   path \in DownloadPaths, shape \in QueryShapes,
                   pieces \in SeqsUpTo(ValuePieces, MaxPieces),
                   item \in FileItems}
    /\ ret = <<>>

call_file_path ==
    /\ pc = "call"
    /\ ret' = [filename |-> file_path(arg.url, arg.item), file_id |-> file_id(arg.url)]
    /\ pc' = "done"
    /\ UNCHANGED <<arg, crawlVars>>

SpecFile == InitFile /\ [][call_file_path]_vars

-----------------------------------------------------------------------------
(* Properties *)

\* the k-th smallest element of a finite set of integers
KthOf(S, k) == CHOOSE i \in S : Cardinality({j \in S : j < i}) = k - 1

AnyOk(results) == \E k \in 1..Len(results) : results[k][1]

LocalPath(rec) == rec.syllabus_local_filepath
LocalName(rec) == rec.syllabus_local_filename

ExportedRows == {csv_rows[k].row : k \in 1..Len(csv_rows)}
                \cup {json_records[k].row : k \in 1..Len(json_records)}

\* C1: at every point of a record's life (yielded, downloading, completed,
\* exported) its syllabus_local_filepath and syllabus_local_filename are both
\* empty or both non-empty, and they are non-empty only if one of the record's
\* download results reported success.
C1_LocalFieldsTogether ==
    /\ \A i \in 1..Len(items) :
          /\ (LocalPath(items[i].item) = "") <=> (LocalName(items[i].item) = "")
          /\ LocalPath(items[i].item) # "" => AnyOk(items[i].results)
    /\ \A row \in ExportedRows : (LocalPath(row) = "") <=> (LocalName(row) = "")

C1_Witness ==
    \E i \in 1..Len(items) :
        /\ items[i].stage = "done"
        /\ LocalName(items[i].item) = "1258_CSE_3666_10.pdf"
        /\ LocalPath(items[i].item) = "syllabi_downloads/1258_CSE_3666_10.pdf"

Metadata == {"term_name", "class_name", "section", "instructor", "syllabus_web_url"}

DownloadFailed(i) ==
    /\ items[i].stage = "done"
    /\ items[i].results # <<>>
    /\ ~AnyOk(items[i].results)

WrittenTo(log, i) == {k \in 1..Len(log) : log[k].src = i}

\* C2: a record whose download failed is written exactly once to the CSV and
\* exactly once to the JSON output, with both local-path fields empty and its
\* metadata fields as the spider yielded them; no record is exported before
\* item_completed has run for it.
C2_FailedDownloadStillExported ==
    \A i \in 1..Len(items) :
        /\ DownloadFailed(i) =>
              /\ Cardinality(WrittenTo(csv_rows, i)) = 1
              /\ Cardinality(WrittenTo(json_records, i)) = 1
              /\ \A log \in {csv_rows, json_records} : \A k \in WrittenTo(log, i) :
                    /\ LocalPath(log[k].row) = "" /\ LocalName(log[k].row) = ""
                    /\ \A f \in Metadata : log[k].row[f] = items[i].yielded[f]
        /\ items[i].stage # "done" =>
              WrittenTo(csv_rows, i) = {} /\ WrittenTo(json_records, i) = {}

C2_Witness ==
    \E i \in 1..Len(items) :
        /\ DownloadFailed(i)
        /\ items[i].yielded.class_name = "CSE 3666"
        /\ \E k \in WrittenTo(json_records, i) : json_records[k].row.instructor = "Zhijie Shi"

C4_PaginationFollowed ==
    /\ handled.cb = "parse_term_results" =>
          IF _find_next_page(handled.response) # NoneVal
          THEN /\ Len(handled.issued) = 1
               /\ handled.issued[1].url = _find_next_page(handled.response)
               /\ handled.issued[1].callback = "parse_term_results"
               /\ handled.issued[1].cb_kwargs = handled.request.cb_kwargs
               /\ handled.issued[1] \in pending
          ELSE handled.issued = <<>>
    /\ \A i \in 1..Len(items) :
          /\ items[i].yielded.term_code = items[i].chain.term_code
          /\ items[i].yielded.term_name = items[i].chain.term_name

C4_Witness ==
    /\ handled.cb = "parse_term_results"
    /\ handled.request.follows = 1
    /\ handled.request.url = BASE_URL \o "search_term.php?page=2"
    /\ handled.request.cb_kwargs = [term_code |-> "1255", term_name |-> "Spring 2025"]
    /\ Len(handled.emitted) = 1
    /\ handled.emitted[1].term_code = "1255"

\* the requests among reqs for term (code, label)
RequestsFor(reqs, code, label) ==
    {k \in 1..Len(reqs) :
        /\ reqs[k].callback = "parse_term_results"
        /\ reqs[k].url = TERM_LIST_URL \o "?term=" \o code
        /\ reqs[k].cb_kwargs = [term_code |-> code, term_name |-> label]}

OptionsEqual(options, o) == {k \in 1..Len(options) : options[k] = o}

\* what parse_term_list yields when filtering tells whether target_terms
\* restricts the crawl: one request per discovered term that is allowed, none
\* for any other
TermRequestsMatch(filtering) ==
    handled.cb = "parse_term_list" =>
        LET options == _extract_term_options(handled.response)
            allowed == {k \in 1..Len(options) :
                           ~filtering \/ options[k][1] \in target_terms.set}
        IN /\ \A k \in 1..Len(options) :
                 Cardinality(RequestsFor(handled.issued, options[k][1], options[k][2]))
                    = IF k \in allowed
                      THEN Cardinality(OptionsEqual(options, options[k]))
                      ELSE 0
           /\ \A k \in 1..Len(handled.issued) :
                 \E j \in allowed :
                    k \in RequestsFor(handled.issued, options[j][1], options[j][2])
           /\ handled.issued # <<>> => Range(handled.issued) \subseteq pending

\* C5 as claimed: a supplied target_terms set (any set that is not None)
\* decides the terms requested; without one every discovered term is requested.
C5_Original == TermRequestsMatch(~target_terms.none)

\* C5, amended: parse_term_list yields exactly one Phase 2 request for each
\* discovered term whose code is in target_terms when target_terms names at
\* least one code, and none for any other term; when target_terms is not
\* supplied or names no code (such as ","), it yields one request for every
\* discovered term.
C5_TermFilter == TermRequestsMatch(~target_terms.none /\ target_terms.set # {})

C5_Witness ==
    /\ handled.cb = "parse_term_list"
    /\ target_terms.set = {"1255", "9999"}
    /\ Len(_extract_term_options(handled.response)) = 2
    /\ Len(handled.issued) = 1
    /\ handled.issued[1].cb_kwargs = [term_code |-> "1255", term_name |-> "Spring 2025"]

\* the department codes as the caller wrote them
WrittenDepts ==
    IF args.target_depts = NoneVal THEN {}
    ELSE {Strip(d) : d \in Range(Split(args.target_depts, ","))} \ {""}

\* the first blank-separated token of a class name
FirstToken(class_name) ==
    LET t == Strip(class_name) IN
    IF FirstWs(t) = 0 THEN t ELSE SubSeq(t, 1, FirstWs(t) - 1)

InWrittenDepts(class_name) ==
    \E d \in WrittenDepts : Upper(d) = Upper(FirstToken(class_name))

\* what parse_term_results yields when filtering tells whether target_depts
\* restricts the rows: one record per kept row of the Row Parser, in row order
RecordsMatch(filtering) ==
    handled.cb = "parse_term_results" =>
        LET rows == _parse_results_table(handled.response).rows
            keptRows == {k \in 1..Len(rows) :
                            ~filtering \/ InWrittenDepts(rows[k].class_name)}
        IN /\ Len(handled.emitted) = Cardinality(keptRows)
           /\ \A k \in 1..Len(handled.emitted) :
                 /\ handled.emitted[k].class_name = rows[KthOf(keptRows, k)].class_name
                 /\ handled.emitted[k].section = rows[KthOf(keptRows, k)].section
                 /\ handled.emitted[k].instructor = rows[KthOf(keptRows, k)].instructor

\* C6 as claimed: a supplied target_depts set (any set that is not None)
\* decides the rows that yield a record.
C6_Original == RecordsMatch(args.target_depts # NoneVal)

\* C6, amended: when target_depts names at least one department, a parsed row
\* yields a record if and only if the department of its class_name is one of
\* them, letter case ignored on both sides; when target_depts is not supplied
\* or names no department (such as " , "), every parsed row yields a record.
\* The filter "math" on a page whose only data row is "CSE 3666" yields nothing.
C6_DeptFilter ==
    /\ RecordsMatch(WrittenDepts # {})
    /\ (/\ handled.cb = "parse_term_results"
        /\ args.target_depts = "math"
        /\ handled.response.tr = <<RowCse>>) => handled.emitted = <<>>

C6_Witness ==
    /\ handled.cb = "parse_term_results"
    /\ args.target_depts = "math"
    /\ Len(_parse_results_table(handled.response).rows) = 2
    /\ Len(handled.emitted) = 1
    /\ handled.emitted[1].class_name = "math 1131Q"

\* the pieces of the "file" parameter parse_qs returns first: the value put in
\* the query, or nothing when the query has no non-blank "file" parameter
FileParamPieces ==
    IF arg.shape \in {"none", "id=V"} THEN <<>>
    ELSE IF arg.shape = "file=V&file=9|z" /\ arg.pieces = <<>> THEN <<"9", "|", "z">>
    ELSE arg.pieces

\* a piece as it reads once decoded: the pipe in its three spellings, "+" a blank
PieceDecoded(piece) ==
    IF piece \in {"|", "%7C", "%257C"} THEN "|"
    ELSE IF piece = "+" THEN " "
    ELSE piece

PipeAt == {k \in 1..Len(FileParamPieces) : PieceDecoded(FileParamPieces[k]) = "|"}

BeforeFirstPipe ==
    Concat([k \in 1..(MinOf(PipeAt) - 1) |-> PieceDecoded(FileParamPieces[k])])

\* C7: file_id is the trimmed text before the first pipe of the "file"
\* parameter (a pipe written "|", "%7C" or left as "%7C" by the query decoding)
\* and, when there is no "file" parameter or no pipe in it, the first 12 hex
\* characters of SHA-1 of the whole URL; file=123|abc and file=123%7Cabc both
\* give "123".
C7_FileId ==
    pc = "done" =>
        /\ ret.file_id = IF PipeAt # {} THEN Strip(BeforeFirstPipe)
                         ELSE sha1_hex12(arg.url)
        /\ arg.url \in {BASE_URL \o "download.php?file=123|abc",
                        BASE_URL \o "download.php?file=123%7Cabc"}
              => ret.file_id = "123"

C7_Witness ==
    /\ pc = "done"
    /\ arg.url = BASE_URL \o "download.php?file=123%7Cabc"
    /\ ret.file_id = "123"
    /\ ret.filename = "1258_CSE_3666_123.pdf"

\* the logical columns: <<field of the result, candidate substrings, default>>
LogicalColumns ==
    { <<"class_col", <<"class">>, 1>>, <<"section_col", <<"section">>, 2>>,
      <<"instructor_col", <<"instructor">>, 3>>,
      <<"syllabi_col", <<"syllabi", "syllabus">>, 4>> }

HeadersWith(headers, name) == {i \in 1..Len(headers) : Contains(headers[i], name)}

HeadersWithAny(headers, names) ==
    UNION {HeadersWith(headers, names[k]) : k \in 1..Len(names)}

CandidatesFound(headers, names) ==
    {k \in 1..Len(names) : HeadersWith(headers, names[k]) # {}}

\* C8 as claimed: the first header, in header order, that contains any of the
\* candidates; the default when none does.
C8_Original ==
    pc = "done" =>
        \A col \in LogicalColumns :
            ret[col[1]] = IF HeadersWithAny(header_texts(arg), col[2]) = {} THEN col[3]
                          ELSE MinOf(HeadersWithAny(header_texts(arg), col[2])) - 1

\* C8, amended: col_index returns the index of the first header, in header
\* order, that contains the first candidate, in candidate order, that any
\* header contains; it returns the positional default (class 1, section 2,
\* instructor 3, syllabus-link 4) when no header contains any candidate,
\* the empty header list included.
C8_ColIndex ==
    pc = "done" =>
        \A col \in LogicalColumns :
            ret[col[1]] =
                IF CandidatesFound(header_texts(arg), col[2]) = {} THEN col[3]
                ELSE MinOf(HeadersWith(header_texts(arg),
                                       col[2][MinOf(CandidatesFound(header_texts(arg), col[2]))])) - 1

C8_Witness ==
    /\ pc = "done"
    /\ arg = <<"Course Syllabus", "Syllabi">>
    /\ ret = [class_col |-> 1, section_col |-> 2, instructor_col |-> 3, syllabi_col |-> 1]

\* the options of the document that selector number n selects
Selected(n) == SelectSeq(arg, LAMBDA opt : option_matches(selectors_to_try[n], opt))

TrimmedValue(opt) == IF opt.value = NoneVal THEN "" ELSE Strip(opt.value)

AllDigitValue(opt) ==
    /\ TrimmedValue(opt) # ""
    /\ \A i \in 1..Len(TrimmedValue(opt)) : Ch(TrimmedValue(opt), i) \in DigitSet

\* the (value, label) pairs of the all-digit options selector n selects
DigitPairs(n) ==
    LET kept == SelectSeq(Selected(n), AllDigitValue)
    IN [k \in 1..Len(kept) |-> <<TrimmedValue(kept[k]), Strip(kept[k].text)>>]

\* C9 as claimed: the all-digit options of the first selector that selects
\* any option.
C9_Original ==
    pc = "done" =>
        LET yielding == {n \in 1..Len(selectors_to_try) : Selected(n) # <<>>}
        IN ret = IF yielding = {} THEN <<>> ELSE DigitPairs(MinOf(yielding))

\* C9, amended: _extract_term_options uses the first selector of its list
\* that selects at least one option whose trimmed value is all digits, and
\* returns exactly the all-digit options of that selector as (value, label)
\* pairs in document order; it returns the empty list when no selector
\* selects such an option.  Options with value "" or "select" never appear.
C9_TermOptions ==
    pc = "done" =>
        LET useful == {n \in 1..Len(selectors_to_try) : DigitPairs(n) # <<>>}
        IN /\ ret = IF useful = {} THEN <<>> ELSE DigitPairs(MinOf(useful))
           /\ \A k \in 1..Len(ret) : ret[k][1] \notin {"", "select"}

C9_Witness ==
    /\ pc = "done"
    /\ Selected(1) # <<>>
    /\ DigitPairs(1) = <<>>
    /\ ret = << <<"1258", "Fall 2025">> >>

RowCols == resolve_columns(header_texts(arg.th))

\* the rows of the table the Row Parser has to emit
DataRows ==
    {k \in 1..Len(arg.tr) :
        /\ Len(arg.tr[k]) > max_col(RowCols)
        /\ Strip(arg.tr[k][RowCols.class_col + 1].text) # ""}

\* C10: the Row Parser emits exactly one TableRow for each table row that has
\* more cells than the largest resolved column index and a class-name cell
\* whose (trimmed) text is non-empty, in document order, emits nothing for
\* any other row and never raises.
C10_RowParser ==
    pc = "done" =>
        /\ ~ret.raised
        /\ Len(ret.rows) = Cardinality(DataRows)
        /\ \A k \in 1..Len(ret.rows) :
              LET cells == arg.tr[KthOf(DataRows, k)] IN
              /\ ret.rows[k].class_name = Strip(cells[RowCols.class_col + 1].text)
              /\ ret.rows[k].section = Strip(cells[RowCols.section_col + 1].text)
              /\ ret.rows[k].instructor = Strip(cells[RowCols.instructor_col + 1].text)

C10_Witness ==
    /\ pc = "done"
    /\ arg.th = StdHeaders
    /\ arg.tr = <<RowFourCells, RowCse>>
    /\ Len(ret.rows) = 1
    /\ ret.rows[1].class_name = "CSE 3666"
    /\ ret.rows[1].href = "download.php?file=10|abc"

=============================================================================
